---- MODULE Spec2Model ----
(***************************************************************************)
(* FlagJudgeConnector (connectors/flageval-connector.py).                  *)
(*                                                                         *)
(* One call of get_prediction runs, under the rate-limit and retry         *)
(* decorators, get_response, which opens an aiohttp session, POSTs the     *)
(* payload and hands the response to _process_response; that coroutine     *)
(* reads the body chunk by chunk and decodes NUL-delimited JSON fragments. *)
(*                                                                         *)
(* Bytes are modelled by tokens, each standing for a run of bytes:         *)
(*   "o"  {"text":"        "c"  "}           "k"  {"other":"               *)
(*   "a" "b"  a letter     "s"  a space      "z"  the NUL byte             *)
(*   "h" "t"  the lead and the continuation byte of a two-byte UTF-8 char  *)
(* and decoded characters by the same tokens, with "e" for the character   *)
(* that the byte pair h t encodes.                                         *)
(***************************************************************************)
EXTENDS Integers, Sequences, FiniteSets, TLC

\* Calls of get_prediction that may be in flight on one connector instance.
NumCalls == 2
\* Largest number of attempts the retry decorator may be configured with.
MaxAttempts == 2
\* Largest number of NUL-terminated fragments in a response body.
MaxFrags == 2
\* Size limit of one chunk, in tokens (iter_chunked's argument).
ChunkSize == 10

Calls == 1..NumCalls

NUL == "z"
Space == "s"

\* Characters that may stand inside a JSON string of the model.
StringChars == {"a", "b", "s", "e"}

----------------------------------------------------------------------------
(* Pure helpers of _process_response *)

RECURSIVE DecodeFrom(_, _)
\* bytes.decode(): UTF-8 decoding of the tokens from position i on. The result
\* is <<"ok", characters>> or <<"err">> (UnicodeDecodeError): a lead byte must
\* be followed by its continuation byte in the same chunk.
DecodeFrom(bytes, i) ==
  IF i > Len(bytes) THEN <<"ok", <<>>>>
  ELSE IF bytes[i] = "h"
    THEN IF i < Len(bytes) /\ bytes[i + 1] = "t"
           THEN LET r == DecodeFrom(bytes, i + 2)
                IN IF r[1] = "ok" THEN <<"ok", <<"e">> \o r[2]>> ELSE r
           ELSE <<"err">>
  ELSE IF bytes[i] = "t" THEN <<"err">>
  ELSE LET r == DecodeFrom(bytes, i + 1)
       IN IF r[1] = "ok" THEN <<"ok", <<bytes[i]>> \o r[2]>> ELSE r

Decode(bytes) == DecodeFrom(bytes, 1)

\* Position of the first NUL of s, or 0.
FirstNul(s) ==
  IF \E i \in 1..Len(s) : s[i] = NUL
    THEN CHOOSE i \in 1..Len(s) : s[i] = NUL /\ \A j \in 1..(i - 1) : s[j] # NUL
    ELSE 0

\* str.split("\0", 1): at most one split, at the first NUL. One part when the
\* string holds no NUL, two parts otherwise.
Split(s) ==
  LET i == FirstNul(s)
  IN IF i = 0 THEN <<s>>
     ELSE <<SubSeq(s, 1, i - 1), SubSeq(s, i + 1, Len(s))>>

RECURSIVE LStrip(_)
LStrip(s) == IF s # <<>> /\ Head(s) = Space THEN LStrip(Tail(s)) ELSE s

RECURSIVE RStrip(_)
RStrip(s) ==
  IF s # <<>> /\ s[Len(s)] = Space THEN RStrip(SubSeq(s, 1, Len(s) - 1)) ELSE s

\* str.strip(): leading and trailing whitespace removed.
Strip(s) == RStrip(LStrip(s))

\* json.loads(data): whitespace around the document is skipped; the document
\* must be one object, here with a single string member. The result is
\* <<"ok", hasText, text>> or <<"err">> (JSONDecodeError).
JsonLoads(data) ==
  LET d == Strip(data)
      body == SubSeq(d, 2, Len(d) - 1)
  IN IF Len(d) >= 2 /\ d[1] \in {"o", "k"} /\ d[Len(d)] = "c"
        /\ \A i \in 1..Len(body) : body[i] \in StringChars
       THEN <<"ok", d[1] = "o", body>>
       ELSE <<"err">>

\* The body of the chunk loop (lines 117-122) on one chunk. The result is the
\* record [err, output, buffer]: err is "" when the iteration completes, the
\* name of the exception raised otherwise.
ProcessChunk(output, buffer, chunk) ==
  IF chunk = <<>> THEN [err |-> "", output |-> output, buffer |-> buffer]
  ELSE
    LET dec == Decode(chunk) IN
    IF dec[1] = "err"
      THEN [err |-> "UnicodeDecodeError", output |-> output, buffer |-> buffer]
    ELSE
      LET buf == buffer \o dec[2]
          parts == Split(buf) IN
      IF Len(parts) # 2
        THEN [err |-> "ValueError", output |-> output, buffer |-> buf]
      ELSE
        LET js == JsonLoads(parts[1]) IN
        IF js[1] = "err"
          THEN [err |-> "JSONDecodeError", output |-> output, buffer |-> parts[2]]
        ELSE IF ~js[2]
          THEN [err |-> "KeyError", output |-> output, buffer |-> parts[2]]
        ELSE [err |-> "", output |-> Strip(js[3]), buffer |-> parts[2]]

----------------------------------------------------------------------------
(* Response bodies the endpoint may serve *)

\* Candidate fragments (the bytes between two NULs): three objects with a
\* `text` member, one truncated object, one object without `text`.
Fragments ==
  { <<"o", "a", "c">>,
    <<"o", "s", "b", "s", "c">>,
    <<"o", "h", "t", "c">>,
    <<"o", "a">>,
    <<"k", "a", "c">> }

\* Bytes that may follow the last NUL of a body.
Tails == { <<>>, <<"o", "b">> }

RECURSIVE Terminated(_)
\* The byte streams made of n NUL-terminated fragments.
Terminated(n) ==
  IF n = 0 THEN { <<>> }
  ELSE { f \o <<NUL>> \o r : f \in Fragments, r \in Terminated(n - 1) }

Bodies ==
  { b \o t : b \in UNION { Terminated(n) : n \in 0..MaxFrags }, t \in Tails }

\* HTTP statuses, by class.
OkStatus == "2xx"
ErrStatus == "non-2xx"
Statuses == {OkStatus, ErrStatus}

\* Answers of the endpoint: <<status, body>>.
Answers == Statuses \X Bodies

\* The answers served where the calls are retried or run together (a sample
\* of Answers).
FewAnswers ==
  { <<OkStatus, <<"o", "a", "c", NUL>>>>,
    <<OkStatus, <<"o", "s", "b", "c", NUL, "o">>>>,
    <<ErrStatus, <<"o", "a", NUL>>>> }

----------------------------------------------------------------------------
(* State *)

VARIABLES
  retries,     \* attempts the retry decorator makes (connector configuration)
  endpoint,    \* which endpoint the connector is configured with
  active,      \* the calls that are made
  pc,          \* where each call stands
  gpAttempts,  \* attempts of get_prediction's body made by its retry wrapper
  grAttempts,  \* attempts of get_response's body made by its retry wrapper
  posts,       \* POSTs sent by the call
  permits,     \* rate-limit permits taken by the call
  sessions,    \* aiohttp sessions the call holds open
  responses,   \* responses the call holds open
  sessOpened,  \* sessions opened by the current run of get_response's body
  respOpened,  \* responses opened by the current run of get_response's body
  status,      \* HTTP status of the current response, "" before it arrives
  stream,      \* the body of the current response
  rest,        \* the part of the body not yet read
  reads,       \* the sizes of the chunks read from the current response
  output,      \* _process_response's local `output`
  buffer,      \* _process_response's local `buffer`
  origErr,     \* the exception caught by _process_response's handler
  prOut,       \* how the last run of _process_response ended
  outcome,     \* how the call of get_prediction ended
  cancelled    \* the call's task was cancelled

vars == <<retries, endpoint, active, pc, gpAttempts, grAttempts, posts, permits,
          sessions, responses, sessOpened, respOpened, status, stream, rest,
          reads, output, buffer, origErr, prOut, outcome, cancelled>>

config == <<retries, endpoint, active>>
counters == <<gpAttempts, grAttempts, posts, permits>>
resources == <<sessions, responses, sessOpened, respOpened>>
response == <<status, stream, rest, reads>>
locals == <<output, buffer, origErr>>

None == [kind |-> "none", val |-> <<>>, err |-> ""]
Returned(v) == [kind |-> "ret", val |-> v, err |-> ""]
Raised(e) == [kind |-> "err", val |-> <<>>, err |-> e]

InitCalls ==
  /\ pc = [c \in Calls |-> "idle"]
  /\ gpAttempts = [c \in Calls |-> 0]
  /\ grAttempts = [c \in Calls |-> 0]
  /\ posts = [c \in Calls |-> 0]
  /\ permits = [c \in Calls |-> 0]
  /\ sessions = [c \in Calls |-> 0]
  /\ responses = [c \in Calls |-> 0]
  /\ sessOpened = [c \in Calls |-> 0]
  /\ respOpened = [c \in Calls |-> 0]
  /\ status = [c \in Calls |-> ""]
  /\ stream = [c \in Calls |-> <<>>]
  /\ rest = [c \in Calls |-> <<>>]
  /\ reads = [c \in Calls |-> <<>>]
  /\ output = [c \in Calls |-> <<>>]
  /\ buffer = [c \in Calls |-> <<>>]
  /\ origErr = [c \in Calls |-> ""]
  /\ prOut = [c \in Calls |-> None]
  /\ outcome = [c \in Calls |-> None]
  /\ cancelled = [c \in Calls |-> FALSE]

\* One call, one attempt, any answer.
Init ==
  /\ retries = 1
  /\ endpoint = "any"
  /\ active = {1}
  /\ InitCalls

\* One call under any retry configuration.
InitRetry ==
  /\ retries \in 1..MaxAttempts
  /\ endpoint = "few"
  /\ active = {1}
  /\ InitCalls

\* All calls in flight together.
InitConc ==
  /\ retries = 1
  /\ endpoint = "few"
  /\ active = Calls
  /\ InitCalls

\* The answers the configured endpoint may give.
Served == IF endpoint = "any" THEN Answers ELSE FewAnswers

----------------------------------------------------------------------------
(* Exceptions and the way they travel *)

\* A handler that also catches cancellation (`except BaseException`).
CatchesEverything(e) == TRUE

\* `except Exception` (lines 78 and 125): every exception of the model but
\* asyncio.CancelledError, which derives from BaseException.
IsException(e) == e # "CancelledError"

\* The retry decorator retries what `except Exception` catches.
RetryCatches(e) == IsException(e)

\* What the retry decorator raises once its attempts are used up. The
\* decorator is defined outside this file; the model does not tell whether it
\* is the last error or an error of the decorator's own.
WrapperError(e) == "RetriesExhausted"

\* A release that happens on the normal return only.
ExitLeaksOnError(held, raising) == IF raising THEN held ELSE 0

\* Leaving the `async with` blocks of get_response (lines 41-47), by return
\* or by exception: __aexit__ releases what was held.
ExitGetResponse(held, raising) == 0

\* get_prediction's body raised e (re-raised as it is by lines 78-80, or
\* passing them by); its retry wrapper runs the body again or gives up.
AfterGetPrediction(c, e) ==
  IF RetryCatches(e) /\ gpAttempts[c] < retries
    THEN [pc |-> "gp_try", outcome |-> None]
  ELSE IF RetryCatches(e)
    THEN [pc |-> "done", outcome |-> Raised(WrapperError(e))]
  ELSE [pc |-> "done", outcome |-> Raised(e)]

\* get_response's body raised e; its retry wrapper runs the body again, or
\* gives up and the error reaches get_prediction's body.
AfterGetResponse(c, e) ==
  IF RetryCatches(e) /\ grAttempts[c] < retries
    THEN [pc |-> "gr_try", outcome |-> None]
  ELSE IF RetryCatches(e)
    THEN AfterGetPrediction(c, WrapperError(e))
  ELSE AfterGetPrediction(c, e)

\* get_response's body ends with exception e: the frame of _process_response
\* is gone, the session and the response are released (the unread part of the
\* body is dropped) and the wrappers take over.
RaiseFromBody(c, e) ==
  LET next == AfterGetResponse(c, e) IN
  /\ sessions' = [sessions EXCEPT ![c] = ExitGetResponse(@, TRUE)]
  /\ responses' = [responses EXCEPT ![c] = ExitGetResponse(@, TRUE)]
  /\ rest' = [rest EXCEPT ![c] = <<>>]
  /\ output' = [output EXCEPT ![c] = <<>>]
  /\ buffer' = [buffer EXCEPT ![c] = <<>>]
  /\ pc' = [pc EXCEPT ![c] = next.pc]
  /\ outcome' = [outcome EXCEPT ![c] = next.outcome]

\* A buffer kept on the connector instance and shared by its calls.
BufferShared(c) == buffer[1]

\* The local `buffer` of call c's run of _process_response (line 115).
BufferOf(c) == buffer[c]

Min(a, b) == IF a < b THEN a ELSE b

----------------------------------------------------------------------------
(* Actions *)

\* get_prediction is called: its rate-limit wrapper takes a permit and its
\* retry wrapper starts (lines 49-50).
GetPrediction(c) ==
  /\ c \in active
  /\ pc[c] = "idle"
  /\ pc' = [pc EXCEPT ![c] = "gp_try"]
  /\ permits' = [permits EXCEPT ![c] = @ + 1]
  /\ UNCHANGED <<config, gpAttempts, grAttempts, posts, resources, response,
                 locals, prOut, outcome, cancelled>>

\* One run of get_prediction's body up to the call of get_response (lines
\* 67-70), whose rate-limit wrapper takes a permit and whose retry wrapper
\* starts (lines 21-22).
GetPredictionBody(c) ==
  /\ pc[c] = "gp_try"
  /\ gpAttempts[c] < retries
  /\ pc' = [pc EXCEPT ![c] = "gr_try"]
  /\ gpAttempts' = [gpAttempts EXCEPT ![c] = @ + 1]
  /\ grAttempts' = [grAttempts EXCEPT ![c] = 0]
  /\ permits' = [permits EXCEPT ![c] = @ + 1]
  /\ UNCHANGED <<config, posts, resources, response, locals, prOut, outcome,
                 cancelled>>

\* One run of get_response's body up to the await of the POST (lines 33-46):
\* a session is opened and the request is sent.
GetResponseBody(c) ==
  /\ pc[c] = "gr_try"
  /\ grAttempts[c] < retries
  /\ pc' = [pc EXCEPT ![c] = "post"]
  /\ grAttempts' = [grAttempts EXCEPT ![c] = @ + 1]
  /\ posts' = [posts EXCEPT ![c] = @ + 1]
  /\ sessions' = [sessions EXCEPT ![c] = @ + 1]
  /\ sessOpened' = [sessOpened EXCEPT ![c] = 1]
  /\ respOpened' = [respOpened EXCEPT ![c] = 0]
  /\ status' = [status EXCEPT ![c] = ""]
  /\ stream' = [stream EXCEPT ![c] = <<>>]
  /\ rest' = [rest EXCEPT ![c] = <<>>]
  /\ reads' = [reads EXCEPT ![c] = <<>>]
  /\ output' = [output EXCEPT ![c] = <<>>]
  /\ buffer' = [buffer EXCEPT ![c] = <<>>]
  /\ origErr' = [origErr EXCEPT ![c] = ""]
  /\ prOut' = [prOut EXCEPT ![c] = None]
  /\ UNCHANGED <<config, gpAttempts, permits, responses, outcome, cancelled>>

\* The POST is answered with a status and a body (any status: the session is
\* created without raise_for_status); the response is entered and
\* _process_response starts (lines 46-47, 113-115).
PostResponds(c, ans) ==
  /\ pc[c] = "post"
  /\ pc' = [pc EXCEPT ![c] = "pr_iter"]
  /\ responses' = [responses EXCEPT ![c] = @ + 1]
  /\ respOpened' = [respOpened EXCEPT ![c] = @ + 1]
  /\ status' = [status EXCEPT ![c] = ans[1]]
  /\ stream' = [stream EXCEPT ![c] = ans[2]]
  /\ rest' = [rest EXCEPT ![c] = ans[2]]
  /\ output' = [output EXCEPT ![c] = <<>>]
  /\ buffer' = [buffer EXCEPT ![c] = <<>>]
  /\ UNCHANGED <<config, counters, sessions, sessOpened, reads, origErr,
                 prOut, outcome, cancelled>>

\* The POST fails (no connection): session.post raises, line 42.
PostFails(c) ==
  /\ pc[c] = "post"
  /\ RaiseFromBody(c, "ClientConnectorError")
  /\ UNCHANGED <<config, counters, sessOpened, respOpened, status, stream,
                 reads, origErr, prOut, cancelled>>

\* iter_chunked yields the next n bytes and the loop body runs on them
\* (lines 116-122); an exception is caught by line 125.
ReadChunk(c, n) ==
  /\ pc[c] = "pr_iter"
  /\ n \in 1..Min(ChunkSize, Len(rest[c]))
  /\ LET ch == SubSeq(rest[c], 1, n)
         r == ProcessChunk(output[c], BufferOf(c), ch)
     IN /\ rest' = [rest EXCEPT ![c] = SubSeq(@, n + 1, Len(@))]
        /\ reads' = [reads EXCEPT ![c] = Append(@, n)]
        /\ output' = [output EXCEPT ![c] = r.output]
        /\ buffer' = [buffer EXCEPT ![c] = r.buffer]
        /\ origErr' = [origErr EXCEPT ![c] = r.err]
        /\ pc' = [pc EXCEPT ![c] = IF r.err = "" THEN "pr_iter" ELSE "pr_except"]
  /\ UNCHANGED <<config, counters, resources, status, stream, prOut, outcome,
                 cancelled>>

\* The connection drops while the body is read: the iterator raises (line
\* 116) and line 125 catches.
ReadFails(c) ==
  /\ pc[c] = "pr_iter"
  /\ pc' = [pc EXCEPT ![c] = "pr_except"]
  /\ origErr' = [origErr EXCEPT ![c] = "ClientPayloadError"]
  /\ UNCHANGED <<config, counters, resources, response, output, buffer, prOut,
                 outcome, cancelled>>

\* The body ends: _process_response returns output (line 123), get_response
\* returns it through its `async with` blocks (line 47) and get_prediction
\* returns it (line 76).
StreamEnds(c) ==
  /\ pc[c] = "pr_iter"
  /\ rest[c] = <<>>
  /\ prOut' = [prOut EXCEPT ![c] = Returned(output[c])]
  /\ sessions' = [sessions EXCEPT ![c] = ExitGetResponse(@, FALSE)]
  /\ responses' = [responses EXCEPT ![c] = ExitGetResponse(@, FALSE)]
  /\ pc' = [pc EXCEPT ![c] = "done"]
  /\ outcome' = [outcome EXCEPT ![c] = Returned(output[c])]
  /\ output' = [output EXCEPT ![c] = <<>>]
  /\ buffer' = [buffer EXCEPT ![c] = <<>>]
  /\ UNCHANGED <<config, counters, sessOpened, respOpened, response, origErr,
                 cancelled>>

\* The handler of _process_response (lines 125-129): response.text() is
\* awaited for the message. When it succeeds the caught exception is raised
\* again; when it raises, that exception leaves the handler instead. After a
\* failed read of the body the stream holds its exception and text() raises.
DiagRead(c, ok) ==
  /\ pc[c] = "pr_except"
  /\ origErr[c] = "ClientPayloadError" => ~ok
  /\ LET e == IF ok THEN origErr[c] ELSE "ClientPayloadError"
     IN /\ prOut' = [prOut EXCEPT ![c] = Raised(e)]
        /\ RaiseFromBody(c, e)
  /\ UNCHANGED <<config, counters, sessOpened, respOpened, status, stream,
                 reads, origErr, cancelled>>

\* The task is cancelled while a wrapper waits (rate limit, back-off sleep).
CancelWaiting(c) ==
  /\ pc[c] \in {"gp_try", "gr_try"}
  /\ ~cancelled[c]
  /\ cancelled' = [cancelled EXCEPT ![c] = TRUE]
  /\ LET next == IF pc[c] = "gr_try"
                   THEN AfterGetResponse(c, "CancelledError")
                   ELSE AfterGetPrediction(c, "CancelledError")
     IN /\ pc' = [pc EXCEPT ![c] = next.pc]
        /\ outcome' = [outcome EXCEPT ![c] = next.outcome]
  /\ UNCHANGED <<config, counters, resources, response, locals, prOut>>

\* The task is cancelled while the POST is awaited (line 42).
CancelPost(c) ==
  /\ pc[c] = "post"
  /\ ~cancelled[c]
  /\ cancelled' = [cancelled EXCEPT ![c] = TRUE]
  /\ RaiseFromBody(c, "CancelledError")
  /\ UNCHANGED <<config, counters, sessOpened, respOpened, status, stream,
                 reads, origErr, prOut>>

\* The task is cancelled while a chunk is awaited (line 116): the exception
\* is raised inside the try block of _process_response.
CancelRead(c) ==
  /\ pc[c] = "pr_iter"
  /\ ~cancelled[c]
  /\ cancelled' = [cancelled EXCEPT ![c] = TRUE]
  /\ IF IsException("CancelledError")
       THEN /\ pc' = [pc EXCEPT ![c] = "pr_except"]
            /\ origErr' = [origErr EXCEPT ![c] = "CancelledError"]
            /\ UNCHANGED <<sessions, responses, rest, output, buffer, prOut,
                           outcome>>
       ELSE /\ prOut' = [prOut EXCEPT ![c] = Raised("CancelledError")]
            /\ RaiseFromBody(c, "CancelledError")
            /\ UNCHANGED origErr
  /\ UNCHANGED <<config, counters, sessOpened, respOpened, status, stream,
                 reads>>

\* The task is cancelled while response.text() is awaited in the handler
\* (line 127).
CancelDiag(c) ==
  /\ pc[c] = "pr_except"
  /\ ~cancelled[c]
  /\ cancelled' = [cancelled EXCEPT ![c] = TRUE]
  /\ prOut' = [prOut EXCEPT ![c] = Raised("CancelledError")]
  /\ RaiseFromBody(c, "CancelledError")
  /\ UNCHANGED <<config, counters, sessOpened, respOpened, status, stream,
                 reads, origErr>>

Next ==
  \/ \E c \in Calls : GetPrediction(c)
  \/ \E c \in Calls : GetPredictionBody(c)
  \/ \E c \in Calls : GetResponseBody(c)
  \/ \E c \in Calls, ans \in Served : PostResponds(c, ans)
  \/ \E c \in Calls : PostFails(c)
  \/ \E c \in Calls, n \in 1..ChunkSize : ReadChunk(c, n)
  \/ \E c \in Calls : ReadFails(c)
  \/ \E c \in Calls : StreamEnds(c)
  \/ \E c \in Calls, ok \in BOOLEAN : DiagRead(c, ok)
  \/ \E c \in Calls : CancelWaiting(c)
  \/ \E c \in Calls : CancelPost(c)
  \/ \E c \in Calls : CancelRead(c)
  \/ \E c \in Calls : CancelDiag(c)

Spec == Init /\ [][Next]_vars

SpecRetry == InitRetry /\ [][Next]_vars

SpecConc == InitConc /\ [][Next]_vars

----------------------------------------------------------------------------
(* What the wire protocol says a body means *)

RECURSIVE SplitAll(_)
\* The pieces of s between its NULs; the last piece is what follows the last
\* NUL.
SplitAll(s) ==
  LET i == FirstNul(s)
  IN IF i = 0 THEN <<s>>
     ELSE <<SubSeq(s, 1, i - 1)>> \o SplitAll(SubSeq(s, i + 1, Len(s)))

\* The complete (NUL-terminated) fragments of a body.
CompleteFragments(s) == LET p == SplitAll(s) IN SubSeq(p, 1, Len(p) - 1)

\* The bytes after the last NUL of a body.
TailOf(s) == LET p == SplitAll(s) IN p[Len(p)]

\* A fragment that is a JSON object with a `text` member.
ValidFragment(f) ==
  /\ Decode(f)[1] = "ok"
  /\ JsonLoads(Decode(f)[2])[1] = "ok"
  /\ JsonLoads(Decode(f)[2])[2]

\* The trimmed `text` of a valid fragment.
TextOf(f) == Strip(JsonLoads(Decode(f)[2])[3])

AllValid(s) ==
  \A i \in 1..Len(CompleteFragments(s)) : ValidFragment(CompleteFragments(s)[i])

\* The trimmed text of the last complete fragment, "" when there is none.
LastText(s) ==
  LET fs == CompleteFragments(s)
  IN IF fs = <<>> THEN <<>> ELSE TextOf(fs[Len(fs)])

\* Errors that come from the network or the scheduler, not from the body.
EnvErrors == {"ClientPayloadError", "CancelledError"}

\* The run of _process_response on call c's response met no such error.
Undisturbed(c) == origErr[c] \notin EnvErrors /\ ~cancelled[c]

----------------------------------------------------------------------------
(* C1 *)

\* C1: for a body made of complete NUL-terminated fragments, whatever the
\* chunking, _process_response returns the trimmed text of the last fragment.
C1_LastFragmentWins ==
  \A c \in Calls :
    (/\ Undisturbed(c)
     /\ TailOf(stream[c]) = <<>>
     /\ AllValid(stream[c]))
    => /\ pc[c] # "pr_except"
       /\ prOut[c].kind # "none" => prOut[c] = Returned(LastText(stream[c]))

(* C2 *)

\* C2: bytes after the last NUL never matter: _process_response ends without
\* error and returns the text of the last complete fragment, "" when the body
\* holds no NUL.
C2_TailIgnored ==
  \A c \in Calls :
    (/\ Undisturbed(c)
     /\ TailOf(stream[c]) # <<>>
     /\ AllValid(stream[c]))
    => /\ pc[c] # "pr_except"
       /\ prOut[c].kind # "none" => prOut[c] = Returned(LastText(stream[c]))

(* C3 *)

\* C3: under a non-2xx status the fragment loop of _process_response is never
\* entered and no judgment is returned.
C3_ErrorStatusNotParsed ==
  \A c \in Calls :
    status[c] = ErrStatus
    => /\ pc[c] \notin {"pr_iter", "pr_except"}
       /\ prOut[c].kind = "none"
       /\ outcome[c].kind # "ret"

(* C4 *)

\* C4: when a complete fragment of the body is not valid JSON or lacks `text`,
\* the call ends with an error and never returns a running result.
C4_BadFragmentFails ==
  \A c \in Calls :
    (/\ pc[c] = "done"
     /\ status[c] # ""
     /\ ~AllValid(stream[c]))
    => outcome[c].kind = "err"

(* C5 *)

InBody(c) == pc[c] \in {"post", "pr_iter", "pr_except"}

RECURSIVE RunAlone(_, _, _, _)
\* _process_response run by itself on body `body`, read in chunks of the
\* sizes `sizes`, from the locals out and buf: the record ProcessChunk gives
\* at the first exception or after the last chunk.
RunAlone(out, buf, body, sizes) ==
  IF sizes = <<>> THEN [err |-> "", output |-> out, buffer |-> buf]
  ELSE LET n == Head(sizes)
           r == ProcessChunk(out, buf, SubSeq(body, 1, n))
       IN IF r.err # "" THEN r
          ELSE RunAlone(r.output, r.buffer, SubSeq(body, n + 1, Len(body)),
                        Tail(sizes))

Alone(c) == RunAlone(<<>>, <<>>, stream[c], reads[c])

\* C6: whatever the interleaving of the calls in flight, the locals of each
\* call, the exception it catches and the string it returns are those of a
\* run by itself on its own response, read in the same chunks.
C6_CallsIndependent ==
  \A c \in Calls :
    /\ pc[c] = "pr_iter" =>
         /\ Alone(c).err = ""
         /\ output[c] = Alone(c).output
         /\ buffer[c] = Alone(c).buffer
    /\ (origErr[c] # "" /\ origErr[c] \notin EnvErrors) =>
         origErr[c] = Alone(c).err
    /\ prOut[c].kind = "ret" =>
         /\ Alone(c).err = ""
         /\ prOut[c].val = Alone(c).output
         /\ outcome[c] = prOut[c]
    /\ prOut[c].kind = "err" => outcome[c].kind = "err"

\* Two calls are reading their bodies at once, each with a running result and
\* the second with bytes left in its buffer.
C6_Witness ==
  /\ pc[1] = "pr_iter" /\ pc[2] = "pr_iter"
  /\ output[1] = <<"a">> /\ output[2] = <<"b">>
  /\ buffer[2] # <<>>

(* C7 *)

\* C7: a cancelled call is over, its outcome is the cancellation error and
\* never a string, and it holds neither a session nor a response.
C7_CancellationPropagates ==
  \A c \in Calls :
    cancelled[c] =>
      /\ pc[c] = "done"
      /\ outcome[c] = Raised("CancelledError")
      /\ sessions[c] = 0 /\ responses[c] = 0

\* A call was cancelled while it awaited a chunk, after a fragment had been
\* parsed.
C7_Witness ==
  \E c \in Calls :
    /\ cancelled[c]
    /\ reads[c] # <<>>
    /\ origErr[c] = ""
    /\ prOut[c] = Raised("CancelledError")

(* C8 *)

\* C8: when a non-empty chunk is appended and the buffer still holds no NUL,
\* no error is raised, the running result is unchanged and the whole buffer is
\* kept for the next iteration.
C8_FragmentSpansChunks ==
  [][\A c \in Calls :
       (/\ pc[c] = "pr_iter"
        /\ reads'[c] # reads[c]
        /\ Decode(SubSeq(rest[c], 1, reads'[c][Len(reads'[c])]))[1] = "ok"
        /\ FirstNul(buffer[c] \o
             Decode(SubSeq(rest[c], 1, reads'[c][Len(reads'[c])]))[2]) = 0)
       => /\ pc'[c] = "pr_iter"
          /\ output'[c] = output[c]
          /\ buffer'[c] = buffer[c] \o
               Decode(SubSeq(rest[c], 1, reads'[c][Len(reads'[c])]))[2]]_vars

(* C9 *)

\* C9: the component does not retry by itself: one attempt of get_prediction
\* sends one POST, so a call sends at most as many POSTs as the retry wrapper
\* of get_prediction allows attempts.
C9_OnePostPerAttempt ==
  \A c \in Calls :
    /\ posts[c] <= gpAttempts[c]
    /\ posts[c] <= retries

(* C10 *)

\* C10: when reading or decoding the body fails, the error that leaves
\* _process_response is the error its handler caught, whether or not the
\* diagnostic read of the response text fails.
C10_OriginalErrorSurvives ==
  \A c \in Calls :
    (prOut[c].kind = "err" /\ origErr[c] # "" /\ ~cancelled[c])
    => prOut[c].err = origErr[c]

====
